---- MODULE Spec2Model ----
(***************************************************************************)
(* Model of app.py: the Flask view `index` (Request Handler) and           *)
(* `guardar_en_bd` (Persistence Gate), with the MySQL server, the driver   *)
(* and the query routine `consulta_cedula` as nondeterministic             *)
(* collaborators.  Each WSGI worker handles one request at a time; the     *)
(* statements of a request that touch the database are separate steps so   *)
(* that requests of different workers interleave.                          *)
(***************************************************************************)
EXTENDS Integers, Sequences, FiniteSets, TLC

\* ---------------------------------------------------------------- bounds
NumWorkers == 2      \* WSGI workers (threads/processes) serving requests
MaxLen == 2          \* longest value of the form field `codigo`
MaxId == 2           \* AUTO_INCREMENT values the server hands out in a run

Workers == 1..NumWorkers

\* ------------------------------------------------------- the environment
Unset == "<unset>"                     \* os.environ.get(...) -> None
EnvValues == {Unset, "", "x"}
RequiredVars == {"DB_HOST", "DB_USER", "DB_PASSWORD", "DB_NAME"}
EnvVars == RequiredVars \cup {"DB_TABLE"}
Environs == [EnvVars -> EnvValues]

\* Python truthiness of an environment value: None and '' are false.
Truthy(v) == v # Unset /\ v # ""

\* a check that also demands DB_TABLE, as the module's docstring words it
CfgCompleteConTabla(env) == \A k \in EnvVars : Truthy(env[k])

\* cfg = {...}; all(cfg.values())
CfgComplete(env) == \A k \in RequiredVars : Truthy(env[k])

\* tabla = os.environ.get('DB_TABLE', 'cedulas')
Tabla(env) == IF env["DB_TABLE"] = Unset THEN "cedulas" ELSE env["DB_TABLE"]

\* ------------------------------------------------------------ form input
Chars == {" ", "7"}
RECURSIVE SeqsUpTo(_)
SeqsUpTo(n) == IF n = 0 THEN {<<>>}
               ELSE LET S == SeqsUpTo(n - 1)
                    IN S \cup {Append(s, c) : s \in {t \in S : Len(t) = n - 1}, c \in Chars}
Strings == SeqsUpTo(MaxLen)
\* a submitted form: the field `codigo` present with a value, or absent
Forms == [present : {TRUE}, value : Strings] \cup {[present |-> FALSE, value |-> <<>>]}
Methods == {"GET", "POST"}

RECURSIVE LStrip(_)
LStrip(s) == IF s # <<>> /\ Head(s) = " " THEN LStrip(Tail(s)) ELSE s
RECURSIVE RStrip(_)
RStrip(s) == IF s # <<>> /\ s[Len(s)] = " " THEN RStrip(SubSeq(s, 1, Len(s) - 1)) ELSE s
\* the field taken as submitted, without trimming
StripOmitido(s) == s
\* str.strip()
Strip(s) == RStrip(LStrip(s))
\* request.form.get('codigo', '')
FormGet(form) == IF form.present THEN form.value ELSE <<>>

\* ------------------------------------------------- results of the lookup
None == [none |-> TRUE]
Campos == {"codigo_de_barras", "fuero", "juzgado", "zona", "fecha_ingreso",
           "fecha_asignacion_zona", "fecha_devolucion", "resultado_diligencia",
           "fecha_disposicion_juzgado"}
EstadoA == [codigo_de_barras |-> "12345", fuero |-> "CIV", juzgado |-> "J1",
            zona |-> "Z1", fecha_ingreso |-> "2025-01-01",
            fecha_asignacion_zona |-> "2025-01-02", fecha_devolucion |-> "",
            resultado_diligencia |-> "PENDIENTE", fecha_disposicion_juzgado |-> ""]
EstadoB == [codigo_de_barras |-> "777", fuero |-> "COM", juzgado |-> "J2",
            zona |-> "Z2", fecha_ingreso |-> "2025-02-01",
            fecha_asignacion_zona |-> "2025-02-02", fecha_devolucion |-> "2025-02-03",
            resultado_diligencia |-> "POSITIVO", fecha_disposicion_juzgado |-> "2025-02-04"]
\* what estado.to_dict() can return
Estados == {EstadoA, EstadoB}
\* a row stored by an earlier run (its key lies below the keys of this run)
FilaPrevia == [id |-> 0] @@ EstadoB
\* outcomes of lines 130-131: a mapping, or an exception with its description
ConsultaFallas == {"timeout", "to_dict"}
Outcomes == {"ok", "fail"}

MsgValidacion == <<"Debe ingresar un número de código de barras.", "error">>
\* an error message that leaves the exception's text out
MsgErrorGenerico(desc) == <<"Error al consultar la cédula: ", "", "error">>
MsgError(desc) == <<"Error al consultar la cédula: ", desc, "error">>

VARIABLES mysql, environ, tableExists, rows, nextId,
          pc, request, codigo, resultado, datos, flashes, exc, trace,
          conn, cursor, pending, rendered, before

vars == <<mysql, environ, tableExists, rows, nextId,
          pc, request, codigo, resultado, datos, flashes, exc, trace,
          conn, cursor, pending, rendered, before>>
dbVars == <<tableExists, rows, nextId>>
envVars == <<mysql, environ>>

\* the calls a request has made so far: what was called, whether it returned,
\* and the exception description or generated key that came back
Ev(op, ok, arg) == [op |-> op, ok |-> ok, arg |-> arg]
Log(r, op, ok, arg) == trace' = [trace EXCEPT ![r] = Append(@, Ev(op, ok, arg))]

InFlight == {q \in Workers : pc[q] # "idle"}

\* what the server holds when the process starts: nothing, or the table with a
\* row an earlier run of the program stored
BdVacia == [tableExists |-> FALSE, rows |-> {}]
BdConFila == [tableExists |-> TRUE, rows |-> {FilaPrevia}]

InitWith(envs, drivers, bds) ==
    /\ mysql \in drivers
    /\ environ \in envs
    /\ \E bd \in bds : tableExists = bd.tableExists /\ rows = bd.rows
    /\ nextId = 1
    /\ pc = [r \in Workers |-> "idle"]
    /\ request = [r \in Workers |-> None]
    /\ codigo = [r \in Workers |-> <<>>]
    /\ resultado = [r \in Workers |-> None]
    /\ datos = [r \in Workers |-> None]
    /\ flashes = [r \in Workers |-> <<>>]
    /\ exc = [r \in Workers |-> ""]
    /\ trace = [r \in Workers |-> <<>>]
    /\ conn = [r \in Workers |-> "unbound"]
    /\ cursor = [r \in Workers |-> "unbound"]
    /\ pending = [r \in Workers |-> {}]
    /\ rendered = [r \in Workers |-> None]
    /\ before = [r \in Workers |-> None]

\* ------------------------------------------------------------- index()
\* a handler that does not look at the request method
DestinoSinMetodo(m, c) == IF c = <<>> THEN "vacio" ELSE "consulta"

\* lines 123-127: where index goes after reading the request: to the query
\* only for a POST whose trimmed codigo is not empty
Destino(m, c) == IF m = "POST"
                 THEN (IF c = <<>> THEN "vacio" ELSE "consulta")
                 ELSE "render"

\* lines 122-126: a request arrives; resultado = None; the field is read and
\* trimmed; an empty one is answered with the validation message
Index(r, forms, conc) ==
    /\ pc[r] = "idle"
    /\ Cardinality(InFlight) < conc
    /\ (nextId - 1) + Cardinality(InFlight) < MaxId
    /\ \E m \in Methods, f \in forms :
         LET c == Strip(FormGet(f))
             d == Destino(m, c)
         IN /\ request' = [request EXCEPT ![r] = [method |-> m, form |-> f]]
            /\ resultado' = [resultado EXCEPT ![r] = None]
            /\ codigo' = [codigo EXCEPT ![r] = IF m = "POST" THEN c ELSE <<>>]
            /\ flashes' = [flashes EXCEPT ![r] =
                              IF d = "vacio" THEN <<MsgValidacion>> ELSE <<>>]
            /\ pc' = [pc EXCEPT ![r] = IF d = "consulta" THEN "consulta" ELSE "render"]
            /\ trace' = [trace EXCEPT ![r] = <<>>]
    /\ UNCHANGED <<envVars, dbVars, datos, exc, conn, cursor, pending, rendered, before>>

\* lines 130-131: estado = consulta_cedula(codigo, ...); resultado = estado.to_dict()
Consulta(r) ==
    /\ pc[r] = "consulta"
    /\ \/ \E e \in Estados :
            /\ resultado' = [resultado EXCEPT ![r] = e]
            /\ pc' = [pc EXCEPT ![r] = "guardar"]
            /\ Log(r, "consulta_cedula", TRUE, "")
            /\ exc' = exc
       \/ \E d \in ConsultaFallas :
            /\ exc' = [exc EXCEPT ![r] = d]
            /\ pc' = [pc EXCEPT ![r] = "except"]
            /\ Log(r, "consulta_cedula", FALSE, d)
            /\ resultado' = resultado
    /\ UNCHANGED <<envVars, dbVars, request, codigo, datos, flashes, conn, cursor, pending,
                   rendered, before>>

\* lines 133-135: except Exception as exc: flash(f'Error ...: {exc}', 'error')
IndexExcept(r) ==
    /\ pc[r] = "except"
    /\ flashes' = [flashes EXCEPT ![r] = Append(@, MsgError(exc[r]))]
    /\ pc' = [pc EXCEPT ![r] = "render"]
    /\ UNCHANGED <<envVars, dbVars, request, codigo, resultado, datos, exc, trace, conn, cursor,
                   pending, rendered, before>>

\* line 136: return render_template('index.html', resultado=resultado)
Render(r) ==
    /\ pc[r] = "render"
    /\ rendered' = [rendered EXCEPT ![r] = [resultado |-> resultado[r], flashes |-> flashes[r]]]
    /\ pc' = [pc EXCEPT ![r] = "done"]
    /\ Log(r, "render_template", TRUE, "")
    /\ UNCHANGED <<envVars, dbVars, request, codigo, resultado, datos, flashes, exc, conn, cursor,
                   pending, before>>

\* the response is sent; the request's locals are discarded (no state across requests)
Respond(r) ==
    /\ pc[r] = "done"
    /\ pc' = [pc EXCEPT ![r] = "idle"]
    /\ request' = [request EXCEPT ![r] = None]
    /\ codigo' = [codigo EXCEPT ![r] = <<>>]
    /\ resultado' = [resultado EXCEPT ![r] = None]
    /\ datos' = [datos EXCEPT ![r] = None]
    /\ flashes' = [flashes EXCEPT ![r] = <<>>]
    /\ exc' = [exc EXCEPT ![r] = ""]
    /\ trace' = [trace EXCEPT ![r] = <<>>]
    /\ conn' = [conn EXCEPT ![r] = "unbound"]
    /\ cursor' = [cursor EXCEPT ![r] = "unbound"]
    /\ pending' = [pending EXCEPT ![r] = {}]
    /\ rendered' = [rendered EXCEPT ![r] = None]
    /\ before' = [before EXCEPT ![r] = None]
    /\ UNCHANGED <<envVars, dbVars>>

\* ------------------------------------------------------- guardar_en_bd()
\* line 132 and lines 64-77: the call, the driver check and the configuration check
Omitir(driver, env) == driver = FALSE \/ ~CfgComplete(env)

Guardar(r) ==
    /\ pc[r] = "guardar"
    /\ datos' = [datos EXCEPT ![r] = resultado[r]]
    /\ before' = [before EXCEPT ![r] = [rows |-> rows, tableExists |-> tableExists]]
    /\ Log(r, "guardar_en_bd", TRUE, "")
    /\ pc' = [pc EXCEPT ![r] = IF Omitir(mysql, environ) THEN "render" ELSE "connect"]
    /\ UNCHANGED <<envVars, dbVars, request, codigo, resultado, flashes, exc, conn, cursor,
                   pending, rendered>>

\* a try block whose statements go on after a failure
SigueSiempre(ok, siguiente) == siguiente

\* where a statement of the try block goes next: on, or to the handler and finally
Sigue(ok, siguiente) == IF ok THEN siguiente ELSE "fin_cursor"

\* line 79: conn = mysql.connector.connect(**cfg)
Connect(r, outs) ==
    /\ pc[r] = "connect"
    /\ \E o \in outs :
         /\ conn' = [conn EXCEPT ![r] = IF o = "ok" THEN "open" ELSE @]
         /\ pc' = [pc EXCEPT ![r] = Sigue(o = "ok", "cursor")]
         /\ Log(r, "connect", o = "ok", "")
    /\ UNCHANGED <<envVars, dbVars, request, codigo, resultado, datos, flashes, exc, cursor,
                   pending, rendered, before>>

\* line 80: cursor = conn.cursor()
Cursor(r, outs) ==
    /\ pc[r] = "cursor"
    /\ \E o \in outs :
         /\ cursor' = [cursor EXCEPT ![r] = IF o = "ok" THEN "open" ELSE @]
         /\ pc' = [pc EXCEPT ![r] = Sigue(o = "ok", "create")]
         /\ Log(r, "cursor", o = "ok", "")
    /\ UNCHANGED <<envVars, dbVars, request, codigo, resultado, datos, flashes, exc, conn,
                   pending, rendered, before>>

\* lines 82-96: CREATE TABLE IF NOT EXISTS {tabla} (...); an empty table name
\* is a syntax error
CreateOutcomes(env, outs) == IF Tabla(env) = "" THEN {"fail"} ELSE outs

CreateTable(r, outs) ==
    /\ pc[r] = "create"
    /\ \E o \in CreateOutcomes(environ, outs) :
         /\ tableExists' = (tableExists \/ o = "ok")
         /\ pc' = [pc EXCEPT ![r] = Sigue(o = "ok", "insert")]
         /\ Log(r, "create_table", o = "ok", "")
    /\ UNCHANGED <<envVars, rows, nextId, request, codigo, resultado, datos, flashes, exc, conn,
                   cursor, pending, rendered, before>>

\* an INSERT whose bindings cross two columns
FilaCruzada(id, d) ==
    [id |-> id,
     codigo_de_barras |-> d.codigo_de_barras, fuero |-> d.juzgado,
     juzgado |-> d.fuero, zona |-> d.zona,
     fecha_ingreso |-> d.fecha_ingreso,
     fecha_asignacion_zona |-> d.fecha_asignacion_zona,
     fecha_devolucion |-> d.fecha_devolucion,
     resultado_diligencia |-> d.resultado_diligencia,
     fecha_disposicion_juzgado |-> d.fecha_disposicion_juzgado]

\* lines 97-107: the row the INSERT binds from datos; id is AUTO_INCREMENT
Fila(id, d) ==
    [id |-> id,
     codigo_de_barras |-> d.codigo_de_barras, fuero |-> d.fuero,
     juzgado |-> d.juzgado, zona |-> d.zona,
     fecha_ingreso |-> d.fecha_ingreso,
     fecha_asignacion_zona |-> d.fecha_asignacion_zona,
     fecha_devolucion |-> d.fecha_devolucion,
     resultado_diligencia |-> d.resultado_diligencia,
     fecha_disposicion_juzgado |-> d.fecha_disposicion_juzgado]

\* the rows a successful INSERT leaves in the connection's open transaction
Insertadas(tx, id, d) == tx \cup {Fila(id, d)}

Insert(r, outs) ==
    /\ pc[r] = "insert"
    /\ \E o \in outs :
         /\ pending' = [pending EXCEPT ![r] =
                           IF o = "ok" THEN Insertadas(@, nextId, datos[r]) ELSE @]
         /\ nextId' = IF o = "ok" THEN nextId + 1 ELSE nextId
         /\ pc' = [pc EXCEPT ![r] = Sigue(o = "ok", "commit")]
         /\ Log(r, "insert", o = "ok", IF o = "ok" THEN ToString(nextId) ELSE "")
    /\ UNCHANGED <<envVars, tableExists, rows, request, codigo, resultado, datos, flashes, exc,
                   conn, cursor, rendered, before>>

\* a table that refuses a second row with the same nine values
ConfirmadasSinDuplicar(tabla, tx) ==
    tabla \cup {x \in tx : \A y \in tabla : \E c \in Campos : x[c] # y[c]}

\* line 108: conn.commit() makes the transaction's rows visible in the table
Confirmadas(tabla, tx) == tabla \cup tx

Commit(r, outs) ==
    /\ pc[r] = "commit"
    /\ \E o \in outs :
         /\ rows' = IF o = "ok" THEN Confirmadas(rows, pending[r]) ELSE rows
         /\ pending' = [pending EXCEPT ![r] = IF o = "ok" THEN {} ELSE @]
         /\ Log(r, "commit", o = "ok", "")
    /\ pc' = [pc EXCEPT ![r] = "fin_cursor"]
    /\ UNCHANGED <<envVars, tableExists, nextId, request, codigo, resultado, datos, flashes, exc,
                   conn, cursor, rendered, before>>

\* lines 112-114: finally: if 'cursor' in locals(): cursor.close()
\* an exception raised here leaves the finally block and guardar_en_bd
TrasCursorClose(ok) == IF ok THEN "fin_conn" ELSE "except"

FinCursor(r, outs) ==
    /\ pc[r] = "fin_cursor"
    /\ IF cursor[r] = "unbound"
       THEN /\ pc' = [pc EXCEPT ![r] = "fin_conn"]
            /\ UNCHANGED <<cursor, exc, trace>>
       ELSE \E o \in outs :
            /\ cursor' = [cursor EXCEPT ![r] = IF o = "ok" THEN "closed" ELSE @]
            /\ exc' = [exc EXCEPT ![r] = IF o = "ok" THEN @ ELSE "cursor.close"]
            /\ pc' = [pc EXCEPT ![r] = TrasCursorClose(o = "ok")]
            /\ Log(r, "cursor.close", o = "ok", "")
    /\ UNCHANGED <<envVars, dbVars, request, codigo, resultado, datos, flashes, conn, pending,
                   rendered, before>>

\* lines 115-116: if 'conn' in locals(): conn.close(); closing rolls back what
\* was not committed.  guardar_en_bd returns to line 132 and index goes on to 136.
FinConn(r, outs) ==
    /\ pc[r] = "fin_conn"
    /\ IF conn[r] = "unbound"
       THEN /\ pc' = [pc EXCEPT ![r] = "render"]
            /\ UNCHANGED <<conn, pending, exc, trace>>
       ELSE \E o \in outs :
            /\ conn' = [conn EXCEPT ![r] = IF o = "ok" THEN "closed" ELSE @]
            /\ pending' = [pending EXCEPT ![r] = IF o = "ok" THEN {} ELSE @]
            /\ exc' = [exc EXCEPT ![r] = IF o = "ok" THEN @ ELSE "conn.close"]
            /\ pc' = [pc EXCEPT ![r] = IF o = "ok" THEN "render" ELSE "except"]
            /\ Log(r, "conn.close", o = "ok", "")
    /\ UNCHANGED <<envVars, dbVars, request, codigo, resultado, datos, flashes, cursor,
                   rendered, before>>

\* -------------------------------------------------------- specifications
Step(r, forms, conc, outs) ==
    \/ Index(r, forms, conc)
    \/ Consulta(r)
    \/ IndexExcept(r)
    \/ Render(r)
    \/ Respond(r)
    \/ Guardar(r)
    \/ Connect(r, outs)
    \/ Cursor(r, outs)
    \/ CreateTable(r, outs)
    \/ Insert(r, outs)
    \/ Commit(r, outs)
    \/ FinCursor(r, outs)
    \/ FinConn(r, outs)

\* One request at a time, every form value, every environment, a database
\* whose every operation may fail.
Init == InitWith(Environs, BOOLEAN, {BdVacia, BdConFila})
Next == \E r \in Workers : Step(r, Forms, 1, Outcomes)
Spec == Init /\ [][Next]_vars

\* Requests of all workers interleaved, a complete configuration and a
\* database whose operations succeed.
EnvCompleto == [k \in EnvVars |-> IF k = "DB_TABLE" THEN Unset ELSE "x"]
FormsConc == {[present |-> TRUE, value |-> <<"7">>]}
InitConc == InitWith({EnvCompleto}, {TRUE}, {BdVacia})
NextConc == \E r \in Workers : Step(r, FormsConc, NumWorkers, {"ok"})
SpecConc == InitConc /\ [][NextConc]_vars

\* ============================================================ properties
\* Readings of a request's history.
Calls(r, op) == {i \in 1..Len(trace[r]) : trace[r][i].op = op}
Called(r, op) == Calls(r, op) # {}
Returned(r, op) == \E i \in Calls(r, op) : trace[r][i].ok
Raised(r, op) == \E i \in Calls(r, op) : ~trace[r][i].ok
Before(r, a, b) == \A i \in Calls(r, a), j \in Calls(r, b) : i < j
DbOps == {"connect", "cursor", "create_table", "insert", "commit",
          "cursor.close", "conn.close"}
NoDbOps(r) == \A i \in 1..Len(trace[r]) : trace[r][i].op \notin DbOps
Last(r) == trace[r][Len(trace[r])]

\* guardar_en_bd was called and its call is over: control is back in index,
\* either after line 132 or in the handler of line 133
GateRaised(r) == pc[r] = "except" /\ Called(r, "guardar_en_bd")
GateOver(r) == Called(r, "guardar_en_bd") /\ pc[r] \in {"except", "render", "done"}
\* the configuration under which guardar_en_bd goes on to the database
Habilitado == mysql /\ \A k \in RequiredVars : environ[k] \notin {Unset, ""}
WhitespaceOnly(s) == \A i \in 1..Len(s) : s[i] = " "
IsPost(r) == request[r] # None /\ request[r].method = "POST"
IsGet(r) == request[r] # None /\ request[r].method = "GET"
BlankPost(r) == IsPost(r) /\ WhitespaceOnly(FormGet(request[r].form))
SameFields(row, d) == \A c \in Campos : row[c] = d[c]

\* C1: guardar_en_bd never lets an exception escape to its caller, whatever
\* step fails, the closes of the finally block included.
C1_NeverRaises == \A r \in Workers : ~GateRaised(r)

\* C2: for a POST whose query succeeded the response is the same whatever the
\* Persistence Gate does: the result is rendered and no error message is flashed.
C2_ResponseIgnoresGate ==
    \A r \in Workers :
        (pc[r] = "done" /\ IsPost(r) /\ Returned(r, "consulta_cedula"))
            => /\ rendered[r].resultado \in Estados
               /\ rendered[r].resultado = datos[r]
               /\ rendered[r].flashes = <<>>

\* C3: a POST whose codigo is absent, empty or whitespace-only never calls the
\* query routine nor guardar_en_bd, flashes exactly the validation message and
\* is rendered with no result.
C3_BlankPost ==
    \A r \in Workers :
        BlankPost(r) =>
            /\ ~Called(r, "consulta_cedula")
            /\ ~Called(r, "guardar_en_bd")
            /\ NoDbOps(r)
            /\ flashes[r] = <<MsgValidacion>>
            /\ pc[r] \in {"render", "done"}
            /\ pc[r] = "done" =>
                  rendered[r] = [resultado |-> None, flashes |-> <<MsgValidacion>>]
C3_Witness ==
    \E r \in Workers :
        /\ pc[r] = "done"
        /\ IsPost(r)
        /\ request[r].form = [present |-> TRUE, value |-> <<" ">>]

C6_QueryFailure ==
    \A r \in Workers :
        Raised(r, "consulta_cedula") =>
            /\ ~Called(r, "guardar_en_bd")
            /\ NoDbOps(r)
            /\ pc[r] \in {"except", "render", "done"}
            /\ resultado[r] = None
            /\ pc[r] = "done" =>
                  /\ rendered[r].resultado = None
                  /\ Len(rendered[r].flashes) = 1
                  /\ \E i \in Calls(r, "consulta_cedula") :
                        /\ trace[r][i].arg \in ConsultaFallas
                        /\ rendered[r].flashes[1][2] = trace[r][i].arg
                  /\ rendered[r].flashes[1][3] = "error"
                  /\ Last(r).op = "render_template"
C6_Witness ==
    \E r \in Workers :
        /\ pc[r] = "done"
        /\ Raised(r, "consulta_cedula")
        /\ rendered[r].flashes[1][2] = "timeout"

\* C7: two calls of guardar_en_bd with the same record, one after the other or
\* interleaved, every step succeeding, leave two rows with distinct generated
\* keys, both holding the record's nine fields.
Committed(r) == Returned(r, "commit")
RowOf(r) == {row \in rows : \E i \in Calls(r, "insert") :
                               trace[r][i].ok /\ trace[r][i].arg = ToString(row.id)}
C7_TwoRows ==
    /\ \A x, y \in rows : x.id = y.id => x = y
    /\ \A r \in Workers :
          Committed(r) => /\ Cardinality(RowOf(r)) = 1
                          /\ \A row \in RowOf(r) : SameFields(row, datos[r])
    /\ \A r, q \in Workers :
          (r # q /\ Committed(r) /\ Committed(q)) =>
              /\ RowOf(r) \cap RowOf(q) = {}
              /\ Cardinality(RowOf(r) \cup RowOf(q)) = 2
C7_Witness ==
    \E r, q \in Workers :
        /\ r # q
        /\ Committed(r) /\ Committed(q)
        /\ datos[r] = datos[q]
        /\ Cardinality(rows) = 2
        /\ \A row \in rows : SameFields(row, datos[r])

\* C8: when a call of guardar_en_bd ends, on any path, the connection it opened
\* and the cursor it created are closed.
C8_AllReleased ==
    \A r \in Workers : GateOver(r) => (conn[r] # "open" /\ cursor[r] # "open")

\* C9: the mutating steps of a call come in the order connect, ensure-table,
\* insert, commit; the committed rows are those from before the call unless
\* its commit succeeded, and then exactly one more row, with a new key and the
\* caller's nine fields.
C9_NoPartialRow ==
    \A r \in Workers :
        Called(r, "guardar_en_bd") =>
            /\ Before(r, "connect", "create_table")
            /\ Before(r, "create_table", "insert")
            /\ Before(r, "insert", "commit")
            /\ IF Returned(r, "commit")
               THEN \E row \in rows :
                       /\ row \notin before[r].rows
                       /\ \A old \in before[r].rows : old.id # row.id
                       /\ rows = before[r].rows \cup {row}
                       /\ SameFields(row, datos[r])
               ELSE rows = before[r].rows
C9_Witness ==
    \E r \in Workers :
        /\ GateOver(r)
        /\ Returned(r, "insert") /\ Raised(r, "commit")
        /\ before[r].rows # {}
        /\ rows = before[r].rows

\* C10: within a request the query comes first, then guardar_en_bd, then the
\* rendering: guardar_en_bd is called at most once and only right after the
\* query returned, the rendering happens once and last, and a GET calls
\* neither and renders no result.
C10_Order ==
    \A r \in Workers :
        /\ Cardinality(Calls(r, "consulta_cedula")) <= 1
        /\ Cardinality(Calls(r, "guardar_en_bd")) <= 1
        /\ Cardinality(Calls(r, "render_template")) <= 1
        /\ \A i \in Calls(r, "guardar_en_bd") :
              i = 2 /\ trace[r][1].op = "consulta_cedula" /\ trace[r][1].ok
        /\ \A i \in Calls(r, "consulta_cedula") : i = 1 /\ IsPost(r)
        /\ \A i \in Calls(r, "render_template") : i = Len(trace[r])
        /\ Called(r, "render_template") <=> pc[r] = "done"
        /\ IsGet(r) =>
              /\ ~Called(r, "consulta_cedula") /\ ~Called(r, "guardar_en_bd")
              /\ NoDbOps(r)
              /\ pc[r] = "done" => rendered[r] = [resultado |-> None, flashes |-> <<>>]
C10_Witness ==
    \E r \in Workers :
        /\ pc[r] = "done"
        /\ Returned(r, "commit")
        /\ Len(trace[r]) = 10

====
